---- MODULE Spec2Model ----
(***************************************************************************)
(* Model of train.py: the JSONL dataset wrappers, the batch loaders and    *)
(* the fine-tuning loop train_model with gradient accumulation, a learning *)
(* rate schedule and one checkpoint per epoch.                             *)
(*                                                                         *)
(* Abstractions: tensors are not modelled.  The model weights are the      *)
(* number of optimizer updates applied to the pretrained weights, grads is *)
(* the set of batches of the epoch whose gradient is held in .grad, and    *)
(* the loss of a batch is the number of samples in it.  Python's 0-based   *)
(* list entries[idx] is the 1-based sequence element entries[idx + 1].     *)
(***************************************************************************)
EXTENDS Integers, Sequences, FiniteSets

VARIABLES
  train_file,          \* lines of ./annotations/train.jsonl
  test_file,           \* lines of ./annotations/test.jsonl
  disk,                \* image paths that exist
  pc,                  \* position of the script
  err,                 \* the uncaught exception, "none" while running
  entries,             \* local list of _load_entries
  line_no,             \* lines of the open file consumed by _load_entries
  train_dataset,       \* DetectionDataset over train.jsonl
  test_dataset,        \* DetectionDataset over test.jsonl
  num_training_steps,  \* local of train_model
  epoch,               \* loop variable of train_model, 0-based
  training,            \* model.training
  sampler_rest,        \* indices the shuffled sampler has not yielded yet
  trained_count,       \* idx -> times sample idx was trained on this epoch
  batch_no,            \* training batches processed this epoch
  val_batch_no,        \* validation batches processed this epoch
  val_seen,            \* sample indices validated this epoch, in order
  step,                \* accelerator.step
  sync_gradients,      \* accelerator.sync_gradients
  weights,             \* model weights: optimizer updates applied
  grads,               \* batches whose gradient is accumulated in .grad
  last_update,         \* batches whose gradients the last update used
  lr_steps,            \* calls of lr_scheduler.step()
  train_loss,          \* local of train_model
  avg_train_loss,      \* local of train_model, unbound until assigned
  val_loss,            \* local of train_model
  save_log,            \* calls of accelerator.save_model, in order
  train_end,           \* training state when the epoch's train loop ended
  got                  \* result of the last direct __getitem__ call

vars == <<train_file, test_file, disk, pc, err, entries, line_no,
          train_dataset, test_dataset, num_training_steps, epoch, training,
          sampler_rest, trained_count, batch_no, val_batch_no, val_seen,
          step, sync_gradients, weights, grads, last_update, lr_steps,
          train_loss, avg_train_loss, val_loss, save_log, train_end, got>>

\* ---------------------------------------------------------------- bounds
MaxTrain == 9
MaxTest == 5
MaxIdx == 3

\* ------------------------------------------------------ module constants
BATCH_SIZE == 4
gradient_accumulation_steps == 2
epochs == 8
img_dir == "./images"
output_dir == "./model_checkpoints"

Min(a, b) == IF a < b THEN a ELSE b

\* --------------------------------------------------------------- inputs
\* A line of a JSONL file.  kind says what text the line holds:
\*   "json"             an entry object {"image":.., "prefix":.., "suffix":..}
\*   "empty"            an empty line
\*   "garbage"          text that is no JSON value, such as {oops
\*   "nan"              the literal NaN (or Infinity, -Infinity): not JSON
\*   "scalar"           a JSON value that is no object, such as 42
\*   "object_no_image"  the JSON object {}
\*   "object_no_prefix" a JSON object with the key "image" only
JsonLine(img, sfx) ==
  [kind |-> "json", image |-> img, prefix |-> "<OD>", suffix |-> sfx]
IrregularLine(k, img) ==
  [kind |-> k, image |-> IF k = "object_no_prefix" THEN img ELSE 0,
   prefix |-> "", suffix |-> 0]
IrregularKinds ==
  {"empty", "garbage", "nan", "scalar", "object_no_image", "object_no_prefix"}

\* File of n lines whose line bad (when bad > 0) is irregular; line i names
\* image base + i.
MakeFile(n, bad, k, base) ==
  [i \in 1..n |->
     IF i = bad THEN IrregularLine(k, base + i) ELSE JsonLine(base + i, i)]

AllImages == {<<img_dir, i>> : i \in 1..(MaxTrain + MaxTest)}

\* The images that may be absent: the one named by line 1 of train.jsonl and
\* those named by the first and the last possible line of test.jsonl.
FragileImages ==
  {<<img_dir, 1>>, <<img_dir, MaxTrain + 1>>, <<img_dir, MaxTrain + MaxTest>>}

\* ------------------------------------------------------------ JSONLDataset
\* The Python value json.loads builds from the text of a line it accepts.
decoded(line) ==
  [type |-> CASE line.kind = "nan" -> "float"
              [] line.kind = "scalar" -> "int"
              [] OTHER -> "dict",
   keys |-> CASE line.kind = "json" -> {"image", "prefix", "suffix"}
              [] line.kind = "object_no_prefix" -> {"image"}
              [] OTHER -> {},
   image |-> line.image, prefix |-> line.prefix, suffix |-> line.suffix]

NoValue == [type |-> "none", keys |-> {}, image |-> 0, prefix |-> "",
            suffix |-> 0]

\* json.loads replaced by a parser that takes a blank line for an empty object
json_loads_lenient(line) ==
  IF line.kind = "garbage"
  THEN [raised |-> "JSONDecodeError", value |-> NoValue]
  ELSE [raised |-> "none", value |-> decoded(line)]

\* json.loads: rejects an empty line and text that is no value; accepts every
\* JSON value and the literals NaN, Infinity, -Infinity
json_loads(line) ==
  IF line.kind \in {"empty", "garbage"}
  THEN [raised |-> "JSONDecodeError", value |-> NoValue]
  ELSE [raised |-> "none", value |-> decoded(line)]

\* value[key]: the exception it raises, "none" when the key is there
subscript(value, key) ==
  IF value.type # "dict" THEN "TypeError"
  ELSE IF key \notin value.keys THEN "KeyError"
  ELSE "none"

\* entries.append replaced by entries.insert(0, data)
insert_front(list, data) == <<data>> \o list

append(list, data) == Append(list, data)

NoDataset == [constructed |-> FALSE, entries |-> <<>>]

os_path_join(dir, name) == <<dir, name>>

\* Image.open replaced by an opener that yields a placeholder for a missing file
Image_open_placeholder(path) == [raised |-> "none", image |-> path]

Image_open(path) ==
  IF path \in disk
  THEN [raised |-> "none", image |-> path]
  ELSE [raised |-> "FileNotFoundError", image |-> <<"", 0>>]

NoItem == NoValue

\* the bounds check replaced by Python's own: negative indices count from the end
out_of_range_python(idx, n) == idx < 0 - n \/ idx >= n

out_of_range(idx, n) == idx < 0 \/ idx >= n

\* Python list indexing list[idx]: a negative idx counts from the end
list_index(list, idx) ==
  IF idx < 0 THEN list[Len(list) + idx + 1] ELSE list[idx + 1]

\* JSONLDataset.__getitem__: the files it opened, the exception or the pair.
JSONL_getitem(ds, idx) ==
  IF out_of_range(idx, Len(ds.entries))
  THEN [raised |-> "IndexError", opened |-> {}, image |-> <<"", 0>>,
        entry |-> NoItem]
  ELSE LET entry == list_index(ds.entries, idx)
           image_path == os_path_join(img_dir, entry.image)
           r == Image_open(image_path)
       IN IF subscript(entry, "image") # "none"
          THEN [raised |-> subscript(entry, "image"), opened |-> {},
                image |-> <<"", 0>>, entry |-> NoItem]
          ELSE [raised |-> r.raised, opened |-> {image_path},
                image |-> r.image,
                entry |-> IF r.raised = "none" THEN entry ELSE NoItem]

JSONL_len(ds) == Len(ds.entries)

\* DetectionDataset
Detection_len(ds) == JSONL_len(ds)

Detection_getitem(ds, idx) ==
  LET r == JSONL_getitem(ds, idx)
  IN IF r.raised # "none"
     THEN [raised |-> r.raised, prefix |-> "", suffix |-> 0,
           image |-> <<"", 0>>]
     ELSE IF subscript(r.entry, "prefix") # "none"
     THEN [raised |-> subscript(r.entry, "prefix"), prefix |-> "",
           suffix |-> 0, image |-> <<"", 0>>]
     ELSE IF subscript(r.entry, "suffix") # "none"
     THEN [raised |-> subscript(r.entry, "suffix"), prefix |-> "",
           suffix |-> 0, image |-> <<"", 0>>]
     ELSE [raised |-> "none", prefix |-> r.entry.prefix,
           suffix |-> r.entry.suffix, image |-> r.image]

\* ---------------------------------------------------------------- loaders
\* len(DataLoader) with drop_last=False
loader_len(ds) == (Detection_len(ds) + BATCH_SIZE - 1) \div BATCH_SIZE

\* the unshuffled loader numbering samples from 1
val_batch_from_one(ds, k) ==
  [j \in 1..Min(BATCH_SIZE, Detection_len(ds) - (k - 1) * BATCH_SIZE)
     |-> (k - 1) * BATCH_SIZE + j]

\* indices of the k-th batch (k = 1, 2, ...) of the unshuffled loader
val_batch(ds, k) ==
  [j \in 1..Min(BATCH_SIZE, Detection_len(ds) - (k - 1) * BATCH_SIZE)
     |-> (k - 1) * BATCH_SIZE + j - 1]

\* candidates for the next batch of the shuffled loader
sampler_draw(rest, n) ==
  {B \in SUBSET rest : Cardinality(B) = Min(BATCH_SIZE, Cardinality(rest))}

\* Exceptions that fetching the samples idxs of a shuffled batch can raise:
\* the samples are fetched in the sampler's order, so any failing sample may
\* be the first.
fetch_errors(ds, idxs) ==
  {Detection_getitem(ds, i).raised : i \in idxs} \ {"none"}

\* Exception raised by fetching the samples of batch B in order: that of the
\* first failing sample, or "none".
fetch_error(ds, B) ==
  LET failing == {j \in DOMAIN B : Detection_getitem(ds, B[j]).raised # "none"}
  IN IF failing = {} THEN "none"
     ELSE Detection_getitem(ds,
            B[CHOOSE j \in failing : \A h \in failing : j <= h]).raised

\* ------------------------------------------------------------ accelerate
\* Accelerator.accumulate: decides whether this batch synchronises.
do_sync(st, end_of_dataloader) ==
  IF end_of_dataloader
  THEN [step |-> 0, sync_gradients |-> TRUE]
  ELSE [step |-> st + 1,
        sync_gradients |-> ((st + 1) % gradient_accumulation_steps = 0)]

\* accelerator.backward(loss): adds the gradient of batch k to .grad
backward(g, k) == g \cup {k}

\* optimizer.step() of the prepared optimizer: skipped while accumulating
optimizer_step(w, sync) == IF sync THEN w + 1 ELSE w

\* zero_grad of the bare optimizer: clears the gradients on every batch
zero_grad_always(g, sync) == {}

\* optimizer.zero_grad() of the prepared optimizer: skipped while accumulating
zero_grad(g, sync) == IF sync THEN {} ELSE g

\* ------------------------------------------------------------ train_model
\* the schedule sized to the optimizer updates instead of the batches
training_steps_updates(n_epochs, n_batches) ==
  n_epochs * (n_batches \div gradient_accumulation_steps)

training_steps(n_epochs, n_batches) == n_epochs * n_batches

Unbound == [bound |-> FALSE, value |-> 0]

\* the average guarded against an empty loader
average_guarded(total, count) ==
  IF count = 0
  THEN [raised |-> "none", value |-> 0]
  ELSE [raised |-> "none", value |-> total \div count]

\* total / count; division by zero raises
average(total, count) ==
  IF count = 0
  THEN [raised |-> "ZeroDivisionError", value |-> 0]
  ELSE [raised |-> "none", value |-> total \div count]

\* the directory named after the 0-based loop variable
weights_output_dir_zero_based(ep) == <<output_dir, ep>>

weights_output_dir(ep) == <<output_dir, ep + 1>>

\* saving the weights as loaded from the pretrained checkpoint
save_model_pretrained(w) == 0

save_model(w) == w

\* what accelerator.save_model(model, dir) is given to write: the model
saved_objects == {"model"}

\* DataLoader(train_dataset, shuffle=True): its RandomSampler refuses a
\* dataset without samples
train_loader_error(ds) ==
  IF Detection_len(ds) = 0 THEN "ValueError" ELSE "none"

NoSnapshot == [weights |-> 0, grads |-> {}, lr_steps |-> 0, step |-> 0]

NoResult == [raised |-> "none", opened |-> {}, image |-> <<"", 0>>,
             entry |-> NoItem, prefix |-> "", suffix |-> 0, idx |-> 0,
             call |-> "none"]

Terminated == pc \in {"done", "failed"}

\* ------------------------------------------------------------------ Init
\* At most one line of the two files is irregular: the first or the last
\* line of one of them.  The number of that line in file f of n lines, or 0.
IrregularAt(where, f, n) ==
  IF where.file # f THEN 0
  ELSE IF where.line = "first" THEN Min(1, n)
  ELSE n

Init ==
  /\ \E n \in 0..MaxTrain, m \in 0..MaxTest, k \in IrregularKinds,
        where \in [file : {"none", "train", "test"},
                   line : {"first", "last"}] :
       /\ train_file = MakeFile(n, IrregularAt(where, "train", n), k, 0)
       /\ test_file = MakeFile(m, IrregularAt(where, "test", m), k, MaxTrain)
  /\ \E missing \in {{}} \cup {{p} : p \in FragileImages} :
       disk = AllImages \ missing
  /\ pc = "load_train"
  /\ err = "none"
  /\ entries = <<>>
  /\ line_no = 0
  /\ train_dataset = NoDataset
  /\ test_dataset = NoDataset
  /\ num_training_steps = 0
  /\ epoch = 0
  /\ training = FALSE
  /\ sampler_rest = {}
  /\ trained_count = <<>>
  /\ batch_no = 0
  /\ val_batch_no = 0
  /\ val_seen = <<>>
  /\ step = 0
  /\ sync_gradients = TRUE
  /\ weights = 0
  /\ grads = {}
  /\ last_update = {}
  /\ lr_steps = 0
  /\ train_loss = 0
  /\ avg_train_loss = Unbound
  /\ val_loss = 0
  /\ save_log = <<>>
  /\ train_end = NoSnapshot
  /\ got = NoResult

inputs == <<train_file, test_file>>
loop_state == <<epoch, training, sampler_rest, trained_count, batch_no,
                val_batch_no, val_seen>>
model_state == <<step, sync_gradients, weights, grads, last_update, lr_steps>>
loss_state == <<train_loss, avg_train_loss, val_loss>>
load_state == <<entries, line_no, train_dataset, test_dataset>>

\* an uncaught exception ends the script
raise(e) ==
  /\ pc' = "failed"
  /\ err' = e

\* --------------------------------------------------------- _load_entries
\* one iteration of "for line in file" for the file being loaded
load_line(file) ==
  /\ line_no < Len(file)
  /\ LET data == json_loads(file[line_no + 1])
     IN IF data.raised # "none"
        THEN /\ raise(data.raised)
             /\ UNCHANGED <<entries, line_no>>
        ELSE /\ entries' = append(entries, data.value)
             /\ line_no' = line_no + 1
             /\ UNCHANGED <<pc, err>>

LoadTrainLine ==
  /\ pc = "load_train"
  /\ load_line(train_file)
  /\ UNCHANGED <<inputs, disk, train_dataset, test_dataset,
                 num_training_steps, loop_state, model_state, loss_state,
                 save_log, train_end, got>>

\* return entries; self.entries = ...; train_dataset is constructed
LoadTrainDone ==
  /\ pc = "load_train"
  /\ line_no = Len(train_file)
  /\ train_dataset' = [constructed |-> TRUE, entries |-> entries]
  /\ entries' = <<>>
  /\ line_no' = 0
  /\ pc' = "load_test"
  /\ UNCHANGED <<inputs, disk, err, test_dataset, num_training_steps,
                 loop_state, model_state, loss_state, save_log, train_end,
                 got>>

LoadTestLine ==
  /\ pc = "load_test"
  /\ load_line(test_file)
  /\ UNCHANGED <<inputs, disk, train_dataset, test_dataset,
                 num_training_steps, loop_state, model_state, loss_state,
                 save_log, train_end, got>>

LoadTestDone ==
  /\ pc = "load_test"
  /\ line_no = Len(test_file)
  /\ test_dataset' = [constructed |-> TRUE, entries |-> entries]
  /\ entries' = <<>>
  /\ line_no' = 0
  /\ pc' = "setup"
  /\ UNCHANGED <<inputs, disk, err, train_dataset, num_training_steps,
                 loop_state, model_state, loss_state, save_log, train_end,
                 got>>

\* ------------------------------------------------------------ train_model
\* the two loaders; then train_model: optimizer, scheduler,
\* accelerator.prepare
Setup ==
  /\ pc = "setup"
  /\ IF train_loader_error(train_dataset) # "none"
     THEN /\ raise(train_loader_error(train_dataset))
          /\ UNCHANGED <<num_training_steps, epoch>>
     ELSE /\ num_training_steps' =
               training_steps(epochs, loader_len(train_dataset))
          /\ epoch' = 0
          /\ pc' = IF epochs > 0 THEN "epoch" ELSE "done"
          /\ UNCHANGED err
  /\ UNCHANGED <<inputs, disk, load_state, training, sampler_rest,
                 trained_count, batch_no, val_batch_no, val_seen,
                 model_state, loss_state, save_log, train_end, got>>

\* model.train(); train_loss = 0; the train loader starts a new shuffle
EpochStart ==
  /\ pc = "epoch"
  /\ training' = TRUE
  /\ train_loss' = 0
  /\ sampler_rest' = 0..(Detection_len(train_dataset) - 1)
  /\ trained_count' = [i \in 0..(Detection_len(train_dataset) - 1) |-> 0]
  /\ batch_no' = 0
  /\ val_batch_no' = 0
  /\ val_seen' = <<>>
  /\ pc' = "train"
  /\ UNCHANGED <<inputs, disk, err, load_state, num_training_steps, epoch,
                 model_state, avg_train_loss, val_loss, save_log, train_end,
                 got>>

\* one iteration of the training loop
TrainBatch ==
  /\ pc = "train"
  /\ sampler_rest # {}
  /\ \E B \in sampler_draw(sampler_rest, Detection_len(train_dataset)) :
       LET errs == fetch_errors(train_dataset, B)
       IN IF errs # {}
          THEN /\ \E e \in errs : raise(e)
               /\ UNCHANGED <<loop_state, model_state, loss_state>>
          ELSE LET s == do_sync(step, sampler_rest \ B = {})
                   k == batch_no + 1
                   g == backward(grads, k)
               IN /\ step' = s.step
                  /\ sync_gradients' = s.sync_gradients
                  /\ weights' = optimizer_step(weights, s.sync_gradients)
                  /\ last_update' =
                       IF weights' # weights THEN g ELSE last_update
                  /\ lr_steps' = lr_steps + 1
                  /\ grads' = zero_grad(g, s.sync_gradients)
                  /\ train_loss' = train_loss + Cardinality(B)
                  /\ avg_train_loss' =
                       [bound |-> TRUE,
                        value |-> average(train_loss',
                                          loader_len(train_dataset)).value]
                  /\ sampler_rest' = sampler_rest \ B
                  /\ trained_count' =
                       [i \in DOMAIN trained_count |->
                          IF i \in B THEN trained_count[i] + 1
                          ELSE trained_count[i]]
                  /\ batch_no' = k
                  /\ UNCHANGED <<pc, err, epoch, training, val_batch_no,
                                 val_seen, val_loss>>
  /\ UNCHANGED <<inputs, disk, load_state, num_training_steps, save_log,
                 train_end, got>>

\* the train loader is exhausted: print avg_train_loss; model.eval();
\* val_loss = 0
TrainEnd ==
  /\ pc = "train"
  /\ sampler_rest = {}
  /\ IF ~avg_train_loss.bound
     THEN /\ raise("UnboundLocalError")
          /\ UNCHANGED <<training, val_loss, train_end>>
     ELSE /\ training' = FALSE
          /\ val_loss' = 0
          /\ train_end' = [weights |-> weights, grads |-> grads,
                           lr_steps |-> lr_steps, step |-> step]
          /\ pc' = "val"
          /\ UNCHANGED err
  /\ UNCHANGED <<inputs, disk, load_state, num_training_steps, epoch,
                 sampler_rest, trained_count, batch_no, val_batch_no,
                 val_seen, model_state, train_loss, avg_train_loss,
                 save_log, got>>

\* one iteration of the validation loop
ValBatch ==
  /\ pc = "val"
  /\ val_batch_no < loader_len(test_dataset)
  /\ LET B == val_batch(test_dataset, val_batch_no + 1)
         e == fetch_error(test_dataset, B)
     IN IF e # "none"
        THEN /\ raise(e)
             /\ UNCHANGED <<val_batch_no, val_seen, val_loss>>
        ELSE /\ val_loss' = val_loss + Len(B)
             /\ val_seen' = val_seen \o B
             /\ val_batch_no' = val_batch_no + 1
             /\ UNCHANGED <<pc, err>>
  /\ UNCHANGED <<inputs, disk, load_state, num_training_steps, epoch,
                 training, sampler_rest, trained_count, batch_no,
                 model_state, train_loss, avg_train_loss, save_log,
                 train_end, got>>

\* the validation loader is exhausted: avg_val_loss = val_loss / len(...)
ValEnd ==
  /\ pc = "val"
  /\ val_batch_no = loader_len(test_dataset)
  /\ LET a == average(val_loss, loader_len(test_dataset))
     IN IF a.raised # "none"
        THEN raise(a.raised)
        ELSE /\ pc' = "save"
             /\ UNCHANGED err
  /\ UNCHANGED <<inputs, disk, load_state, num_training_steps, loop_state,
                 model_state, loss_state, save_log, train_end, got>>

\* os.makedirs; accelerator.save_model; next iteration of the epoch loop
Save ==
  /\ pc = "save"
  /\ save_log' = Append(save_log,
                        [dir |-> weights_output_dir(epoch),
                         weights |-> save_model(weights),
                         holds |-> saved_objects])
  /\ IF epoch + 1 < epochs
     THEN /\ epoch' = epoch + 1
          /\ pc' = "epoch"
     ELSE /\ pc' = "done"
          /\ UNCHANGED epoch
  /\ UNCHANGED <<inputs, disk, err, load_state, num_training_steps,
                 training, sampler_rest, trained_count, batch_no,
                 val_batch_no, val_seen, model_state, loss_state,
                 train_end, got>>

\* environment: an image file disappears while the script runs
DeleteImage ==
  /\ pc \in {"epoch", "train", "val", "save"}
  /\ disk = AllImages
  /\ \E p \in FragileImages : disk' = disk \ {p}
  /\ UNCHANGED <<inputs, pc, err, load_state, num_training_steps,
                 loop_state, model_state, loss_state, save_log, train_end,
                 got>>

\* the steps of the script itself
NextScript ==
  \/ LoadTrainLine
  \/ LoadTrainDone
  \/ LoadTestLine
  \/ LoadTestDone
  \/ Setup
  \/ EpochStart
  \/ TrainBatch
  \/ TrainEnd
  \/ ValBatch
  \/ ValEnd
  \/ Save

Next ==
  \/ NextScript
  \/ DeleteImage

Spec == Init /\ [][Next]_vars

\* --------------------------------------------- direct calls of __getitem__
\* The datasets are also usable on their own: once train_dataset is
\* constructed any index may be passed to either __getitem__.
Indices == (0 - MaxIdx)..(MaxTrain + MaxIdx)

JSONLGetItem ==
  /\ pc = "load_test"
  /\ train_dataset.constructed
  /\ \E idx \in Indices :
       LET r == JSONL_getitem(train_dataset, idx)
       IN got' = [call |-> "JSONL", idx |-> idx, raised |-> r.raised,
                  opened |-> r.opened, image |-> r.image, entry |-> r.entry,
                  prefix |-> "", suffix |-> 0]
  /\ UNCHANGED <<inputs, disk, pc, err, load_state, num_training_steps,
                 loop_state, model_state, loss_state, save_log, train_end>>

DetectionGetItem ==
  /\ pc = "load_test"
  /\ train_dataset.constructed
  /\ \E idx \in Indices :
       LET r == Detection_getitem(train_dataset, idx)
       IN got' = [call |-> "Detection", idx |-> idx, raised |-> r.raised,
                  opened |-> {}, image |-> r.image, entry |-> NoItem,
                  prefix |-> r.prefix, suffix |-> r.suffix]
  /\ UNCHANGED <<inputs, disk, pc, err, load_state, num_training_steps,
                 loop_state, model_state, loss_state, save_log, train_end>>

InitData ==
  /\ Init
  /\ test_file = <<>>

NextData ==
  \/ LoadTrainLine
  \/ LoadTrainDone
  \/ JSONLGetItem
  \/ DetectionGetItem

SpecData == InitData /\ [][NextData]_vars

\* The script as a single sequential process that always takes its next
\* step, on well-formed files and a complete image directory that nobody
\* else modifies.
InitFair ==
  /\ Init
  /\ \A i \in DOMAIN train_file : train_file[i].kind = "json"
  /\ \A i \in DOMAIN test_file : test_file[i].kind = "json"
  /\ disk = AllImages

FairSpec == InitFair /\ [][NextScript]_vars /\ WF_vars(NextScript)

\* ================================================================ claims
\* every line is a JSON value
WellFormed(file) ==
  \A i \in DOMAIN file :
    file[i].kind \in {"json", "scalar", "object_no_image", "object_no_prefix"}
\* every line is text json.loads accepts
Accepted(file) ==
  \A i \in DOMAIN file : file[i].kind \notin {"empty", "garbage"}
GetItemErrors == {"FileNotFoundError", "TypeError", "KeyError"}
\* the value of a line: an entry object with its three fields, or whatever
\* other value the line holds
Parsed(line) ==
  IF line.kind = "json"
  THEN [type |-> "dict", keys |-> {"image", "prefix", "suffix"},
        image |-> line.image, prefix |-> line.prefix, suffix |-> line.suffix]
  ELSE decoded(line)
Running == pc \in {"epoch", "train", "val", "save"}
AllTrained ==
  /\ sampler_rest = {}
  /\ batch_no = loader_len(train_dataset)
  /\ \A i \in DOMAIN trained_count : trained_count[i] = 1
AllValidated ==
  /\ val_batch_no = loader_len(test_dataset)
  /\ Len(val_seen) = Detection_len(test_dataset)
SavedDirs == {save_log[i].dir : i \in DOMAIN save_log}

\* ---------------------------------------------------------------- C1
C1Inv ==
  /\ \A i \in DOMAIN save_log : save_log[i].dir = <<output_dir, i>>
  /\ (Running \/ (pc = "failed" /\ test_dataset.constructed))
       => Len(save_log) = epoch
  /\ pc = "done" => SavedDirs = {<<output_dir, e>> : e \in 1..epochs}
  /\ pc = "done" => Len(save_log) = epochs

C1Step ==
  /\ save_log' # save_log =>
       /\ AllTrained
       /\ AllValidated
       /\ Len(save_log') = Len(save_log) + 1
       /\ save_log'[Len(save_log')].dir = <<output_dir, epoch + 1>>
       /\ \A i \in DOMAIN save_log : save_log'[i] = save_log[i]
  /\ batch_no' = batch_no + 1 => Len(save_log) = epoch

\* C1: every epoch e is saved exactly once, to output_dir/epoch_e, after all
\* training and validation batches of the epoch and before any training
\* batch of the next epoch; a normal return leaves exactly the checkpoints
\* epoch_1 .. epoch_epochs.
C1Theorem == [](C1Inv) /\ [][C1Step]_vars

C1Witness ==
  /\ pc = "done"
  /\ Len(save_log) = epochs
  /\ loader_len(train_dataset) > 1

\* ---------------------------------------------------------------- C2
\* batches of the accumulation group that batch k completes
GroupOf(k) ==
  IF k % gradient_accumulation_steps = 0
  THEN (k - gradient_accumulation_steps + 1)..k
  ELSE (k - (k % gradient_accumulation_steps) + 1)..k

C2Step ==
  /\ weights' # weights =>
       /\ batch_no' = batch_no + 1
       /\ \/ batch_no' % gradient_accumulation_steps = 0
          \/ batch_no' = loader_len(train_dataset)
       /\ last_update' = GroupOf(batch_no')
       /\ weights' = weights + 1
  /\ (/\ batch_no' = batch_no + 1
      /\ batch_no' % gradient_accumulation_steps # 0
      /\ batch_no' # loader_len(train_dataset))
       => /\ weights' = weights
          /\ grads' = grads \cup {batch_no'}
  /\ (/\ batch_no' = batch_no + 1
      /\ \/ batch_no' % gradient_accumulation_steps = 0
         \/ batch_no' = loader_len(train_dataset))
       => weights' = weights + 1

\* C2: the weights change only on a training batch that completes a group
\* of gradient_accumulation_steps batches or is the last batch of the
\* loader, and that update uses the gradients of every batch of the group.
C2Theorem == [][C2Step]_vars

C2Witness ==
  /\ weights > 0
  /\ Cardinality(last_update) = gradient_accumulation_steps
  /\ batch_no = gradient_accumulation_steps

\* ---------------------------------------------------------------- C3
HasImageKey(ds, i) ==
  ds.entries[i + 1].type = "dict" /\ "image" \in ds.entries[i + 1].keys
ImageExists(ds, i) ==
  HasImageKey(ds, i) /\ <<img_dir, ds.entries[i + 1].image>> \in disk
ImageMissing(ds, i) ==
  HasImageKey(ds, i) /\ <<img_dir, ds.entries[i + 1].image>> \notin disk

C3Step ==
  /\ pc = "failed" => UNCHANGED vars
  /\ (pc' = "failed" /\ err' = "FileNotFoundError") =>
       /\ pc \in {"train", "val"}
       /\ UNCHANGED <<save_log, model_state, loop_state, loss_state>>
       /\ Len(save_log) = epoch
       /\ \A i \in DOMAIN save_log : save_log[i].dir[2] <= epoch
       /\ \/ pc = "train" /\ \E i \in sampler_rest :
               ImageMissing(train_dataset, i)
          \/ pc = "val" /\ \E i \in 0..(Detection_len(test_dataset) - 1) :
               ImageMissing(test_dataset, i)
  /\ trained_count' # trained_count /\ pc = "train" =>
       \A i \in DOMAIN trained_count :
         trained_count'[i] # trained_count[i] => ImageExists(train_dataset, i)
  /\ val_seen' # val_seen /\ pc = "val" =>
       \A j \in DOMAIN val_seen' :
         j > Len(val_seen) => ImageExists(test_dataset, val_seen'[j])

\* C3: a sample whose image file is missing is never trained or validated
\* on; fetching it raises FileNotFoundError, which ends train_model there:
\* nothing runs afterwards, no checkpoint exists for the current or a later
\* epoch, and the checkpoints of earlier epochs are untouched.
C3Theorem == [][C3Step]_vars

C3Witness ==
  /\ pc = "failed"
  /\ err = "FileNotFoundError"
  /\ Len(save_log) >= 1
  /\ batch_no >= 1

\* ---------------------------------------------------------------- C4
\* no dataset, no training or validation step and no checkpoint for a file
\* one of whose lines fails the test ok
LoadFails(ok(_)) ==
  /\ ~ok(train_file) =>
       /\ ~train_dataset.constructed
       /\ pc \in {"load_train", "failed"}
  /\ ~ok(test_file) =>
       /\ ~test_dataset.constructed
       /\ pc \in {"load_train", "load_test", "failed"}
  /\ (~ok(train_file) \/ ~ok(test_file)) =>
       /\ save_log = <<>>
       /\ lr_steps = 0
       /\ weights = 0
       /\ batch_no = 0
       /\ val_batch_no = 0
       /\ pc = "failed" => err = "JSONDecodeError"

\* C4 as stated: a JSONL file with a line that is not well-formed JSON never
\* yields a dataset; loading fails, no training or validation step runs and
\* no checkpoint is saved.  (Fails for a line NaN, which json.loads accepts.)
C4Original == LoadFails(WellFormed)

\* C4: a JSONL file with a line that json.loads rejects (an empty line, or
\* text that is neither a JSON value nor NaN, Infinity, -Infinity) never
\* yields a dataset: loading fails with the decoder's exception, no training
\* or validation step runs and no checkpoint is saved.
C4Theorem == LoadFails(Accepted)

C4Witness ==
  /\ pc = "failed"
  /\ err = "JSONDecodeError"
  /\ Len(entries) >= 2
  /\ train_dataset.constructed

\* ---------------------------------------------------------------- C5
C5Inv ==
  /\ train_dataset.constructed =>
       /\ JSONL_len(train_dataset) = Len(train_file)
       /\ Detection_len(train_dataset) = Len(train_file)
       /\ \A i \in 0..(Len(train_file) - 1) :
            train_dataset.entries[i + 1] = Parsed(train_file[i + 1])
  /\ (got.call = "Detection" /\ got.raised = "none") =>
       /\ train_file[got.idx + 1].kind = "json"
       /\ got.prefix = train_file[got.idx + 1].prefix
       /\ got.suffix = train_file[got.idx + 1].suffix
       /\ got.image = <<img_dir, train_file[got.idx + 1].image>>
  /\ (/\ got.call = "Detection"
      /\ 0 <= got.idx
      /\ got.idx < Len(train_file)
      /\ train_dataset.constructed) =>
       LET line == train_file[got.idx + 1]
       IN (line.kind = "json" /\ <<img_dir, line.image>> \in disk)
            => got.raised = "none"

\* C5: the dataset built from a file of n lines has n entries, entry i
\* being the parsed line i, and DetectionDataset has the same length and
\* returns prefix, suffix and image of entry i as item i (for an entry
\* object whose image exists; it returns nothing else).
C5Theorem == C5Inv

C5Witness ==
  /\ train_dataset.constructed
  /\ Len(train_file) >= 3
  /\ got.call = "Detection"
  /\ got.raised = "none"
  /\ got.idx = 2

\* ---------------------------------------------------------------- C6
LastTrainingEnded ==
  /\ epoch = epochs - 1
  /\ pc \in {"train", "val", "save", "done"}
  /\ batch_no = loader_len(train_dataset)
  /\ sampler_rest = {}

C6Inv ==
  /\ lr_steps <= num_training_steps
  /\ (Running \/ pc = "done") =>
       /\ num_training_steps = epochs * loader_len(train_dataset)
       /\ lr_steps = epoch * loader_len(train_dataset)
                    + (IF pc = "epoch" THEN 0 ELSE batch_no)
  /\ LastTrainingEnded => lr_steps = num_training_steps
  /\ (lr_steps = num_training_steps /\ num_training_steps > 0 /\ Running)
       => LastTrainingEnded

\* C6: lr_scheduler.step() is called once per training batch; the number of
\* calls never exceeds num_training_steps = epochs * len(train_loader) and
\* reaches it when the training phase of the last epoch ends (and, for a
\* loader with batches, not before).
C6Theorem == C6Inv

C6Witness ==
  /\ pc = "done"
  /\ num_training_steps > epochs
  /\ lr_steps = num_training_steps

\* ---------------------------------------------------------------- C7
C7Inv ==
  /\ \A i \in DOMAIN trained_count : trained_count[i] <= 1
  /\ pc \in {"val", "save"} => AllTrained
  /\ \A j \in DOMAIN val_seen : val_seen[j] = j - 1
  /\ pc = "save" => AllValidated
  /\ pc = "train" => (val_batch_no = 0 /\ val_seen = <<>>)
  /\ pc = "done" =>
       /\ epoch = epochs - 1
       /\ err = "none"
       /\ AllTrained
       /\ AllValidated
  /\ pc = "failed" => err # "none"
  /\ epoch \in 0..(epochs - 1)

\* C7: the script terminates; a run without error goes through exactly
\* `epochs` epochs, each training on every sample of the train loader once
\* and then validating every sample of the validation loader once, in
\* dataset order, with no training batch after a validation batch.
C7Theorem == [](C7Inv) /\ <>(Terminated)

C7Witness ==
  /\ pc = "done"
  /\ epoch = epochs - 1
  /\ Len(val_seen) > BATCH_SIZE
  /\ Cardinality(DOMAIN trained_count) > BATCH_SIZE

\* ---------------------------------------------------------------- C8
C8Inv ==
  got.call = "JSONL" =>
    /\ (got.idx < 0 \/ got.idx >= Len(train_dataset.entries)) =>
         /\ got.raised = "IndexError"
         /\ got.opened = {}
    /\ (0 <= got.idx /\ got.idx < Len(train_dataset.entries)) =>
         LET entry == train_dataset.entries[got.idx + 1]
             path == <<img_dir, entry.image>>
         IN /\ got.raised # "IndexError"
            /\ HasImageKey(train_dataset, got.idx) =>
                 /\ got.opened = {path}
                 /\ path \in disk =>
                      /\ got.raised = "none"
                      /\ got.image = path
                      /\ got.entry = entry
            /\ got.raised = "none" =>
                 /\ HasImageKey(train_dataset, got.idx)
                 /\ got.image = path
                 /\ got.entry = entry

\* C8: JSONLDataset.__getitem__ raises IndexError for idx < 0 and for
\* idx >= len(entries) without opening a file or touching the entries, and
\* for a valid idx returns the image at image_directory_path/entry.image
\* together with entries[idx].
C8Theorem == [](C8Inv) /\ [][got' # got => train_dataset' = train_dataset]_vars

C8Witness ==
  /\ got.call = "JSONL"
  /\ got.idx < 0
  /\ Len(train_dataset.entries) >= 2
  /\ got.raised = "IndexError"

\* ---------------------------------------------------------------- C9
C9Inv ==
  pc \in {"val", "save"} =>
    train_end = [weights |-> weights, grads |-> grads,
                 lr_steps |-> lr_steps, step |-> step]

C9Step ==
  /\ pc \in {"val", "save"} => UNCHANGED model_state
  /\ save_log' # save_log =>
       save_log'[Len(save_log')].weights = train_end.weights

\* every checkpoint holds the model, the optimizer and the scheduler
C9HoldsAll ==
  \A i \in DOMAIN save_log :
    {"model", "optimizer", "lr_scheduler"} \subseteq save_log[i].holds

\* every checkpoint holds the model and nothing else
C9HoldsModel ==
  \A i \in DOMAIN save_log : save_log[i].holds = {"model"}

\* C9 as stated: from the end of an epoch's training batches to its
\* checkpoint no backward pass, optimizer step, scheduler step or zero_grad
\* happens, and the checkpoint holds the weights, the optimizer state and
\* the scheduler step count as they were after the last training batch of
\* the epoch.  (Fails: the checkpoint holds the model weights only.)
C9Original == [](C9Inv /\ C9HoldsAll) /\ [][C9Step]_vars

\* C9: from the end of an epoch's training batches to its checkpoint no
\* backward pass, optimizer step, scheduler step or zero_grad happens, so
\* weights, optimizer state and scheduler step count are those of the last
\* training batch of the epoch when the checkpoint is written; the
\* checkpoint holds exactly the model weights, as they were then.
C9Theorem == [](C9Inv /\ C9HoldsModel) /\ [][C9Step]_vars

C9Witness ==
  /\ pc = "epoch"
  /\ Len(save_log) >= 2
  /\ save_log[Len(save_log)].weights = weights
  /\ save_log[Len(save_log)].holds = {"model"}
  /\ weights > Len(save_log)
  /\ Len(test_file) > BATCH_SIZE

\* --------------------------------------------------------------- C10
\* no checkpoint, and no second epoch, with a loader of zero batches
C10NoCheckpoint ==
  (loader_len(train_dataset) = 0 \/ loader_len(test_dataset) = 0) =>
    /\ save_log = <<>>
    /\ epoch = 0
    /\ pc \notin {"save", "done"}

\* an empty validation loader: division by zero after the training phase
C10EmptyVal ==
  (/\ loader_len(test_dataset) = 0
   /\ loader_len(train_dataset) > 0
   /\ pc = "failed"
   /\ err \notin GetItemErrors) =>
    /\ err = "ZeroDivisionError"
    /\ AllTrained
    /\ weights > 0

\* C10 as stated: with a validation loader of zero batches epoch 1 ends in
\* a division by zero after its whole training phase has updated the
\* weights; with a train loader of zero batches reporting avg_train_loss
\* fails in epoch 1; either way no checkpoint is ever written.  (Fails: an
\* empty train dataset stops the script when its loader is built.)
C10Original ==
  test_dataset.constructed =>
    /\ C10NoCheckpoint
    /\ (loader_len(train_dataset) = 0 /\ pc = "failed") =>
         /\ err = "UnboundLocalError"
         /\ ~avg_train_loss.bound
         /\ weights = 0
    /\ C10EmptyVal

\* C10: with a validation loader of zero batches epoch 1 ends in a division
\* by zero after its whole training phase has updated the weights; with an
\* empty train dataset the script stops with ValueError when the shuffled
\* train loader is built, before train_model runs; either way no
\* checkpoint is ever written.
C10Theorem ==
  test_dataset.constructed =>
    /\ C10NoCheckpoint
    /\ loader_len(train_dataset) = 0 =>
         /\ pc \in {"setup", "failed"}
         /\ pc = "failed" => err = "ValueError"
         /\ num_training_steps = 0
         /\ weights = 0
         /\ lr_steps = 0
         /\ ~avg_train_loss.bound
    /\ C10EmptyVal

C10Witness ==
  /\ pc = "failed"
  /\ err = "ZeroDivisionError"
  /\ weights > 1
  /\ save_log = <<>>

====
